---- MODULE Spec2Model ----
(***************************************************************************)
(* Model of internal/web/templates.go (glasskube web UI templates).        *)
(*                                                                         *)
(* Two specifications share the variables:                                 *)
(*   Spec            : the templates struct, parseTemplates run step by    *)
(*                     step by the startup task and by the goroutine that  *)
(*                     watchTemplates starts, the filesystem the templates *)
(*                     are read from, and request tasks reading the fields *)
(*                     of the struct without synchronisation.              *)
(*   FairSpec        : the same without request tasks, the watcher         *)
(*                     goroutine scheduled fairly.                         *)
(*   SpecFn          : the template functions PackageManifestUrl,          *)
(*                     AutoUpdateEnabled, IsSuspended, Reversed and the    *)
(*                     markdown ASTTransformer, applied to bounded inputs. *)
(***************************************************************************)
EXTENDS Integers, Sequences, FiniteSets, TLC

VARIABLES
    templateFuncs,  \* t.templateFuncs: cycle that built the FuncMap (0 = nil)
    tmpl,           \* the *template.Template fields of the struct, by field name
    cycle,          \* number of parseTemplates invocations so far
    completed,      \* number of parseTemplates invocations that returned
    compilePc,      \* 0 = no parseTemplates running, k = about to run Steps[k]
    mainPc,         \* startup task: "parse", "watch", "serve"
    registered,     \* directories the fsnotify watcher watches
    watchErr,       \* directories whose watcher.Add failed (the combined error)
    loopStarted,    \* the goroutine `for range watcher.Events` exists
    delivered,      \* events put on watcher.Events so far
    received,       \* events taken from watcher.Events by the loop
    fs,             \* state of the edited template source files
    edits,          \* changes made to the source files so far
    crashed,        \* an unrecovered panic ended the process
    reads,          \* fields read so far by the request in flight, each with
                    \* the value read and the compile cycle it was read in
    fnIn,           \* SpecFn: the template function call under test
    fnOut           \* SpecFn: its results

vars == <<templateFuncs, tmpl, cycle, completed, compilePc, mainPc, registered,
          watchErr, loopStarted, delivered, received, edits, fs, crashed, reads,
          fnIn, fnOut>>

regVars == <<templateFuncs, tmpl, cycle, completed, compilePc, mainPc, registered,
             watchErr, loopStarted, delivered, received, edits, fs, crashed, reads>>

fnVars == <<fnIn, fnOut>>

(***************************************************************************)
(* Bounds                                                                  *)
(***************************************************************************)
\* filesystem change events that occur in one run
MaxEvents == 2

\* nodes of a markdown document tree
MaxNodes == 5

\* length of a sequence handed to Reversed
MaxLen == 3

\* template fields one request reads
MaxReads == 2

(***************************************************************************)
(* Directory layout and the fixed set of templates                         *)
(***************************************************************************)
\* the three directories watchTemplates registers
Dirs == {"components", "layout", "pages"}

BaseFile == <<"layout", "base.html">>

\* the nine pageTmpl calls of parseTemplates, in order
Pages == <<
    [field |-> "clusterPkgsPageTemplate", file |-> "clusterpackages.html"],
    [field |-> "pkgsPageTmpl",            file |-> "packages.html"],
    [field |-> "pkgPageTmpl",             file |-> "package.html"],
    [field |-> "pkgDiscussionPageTmpl",   file |-> "discussion.html"],
    [field |-> "supportPageTmpl",         file |-> "support.html"],
    [field |-> "bootstrapPageTmpl",       file |-> "bootstrap.html"],
    [field |-> "kubeconfigPageTmpl",      file |-> "kubeconfig.html"],
    [field |-> "settingsPageTmpl",        file |-> "settings.html"],
    [field |-> "repositoryPageTmpl",      file |-> "repository.html"] >>

\* the seven componentTmpl calls of parseTemplates, in order
Components == <<
    [field |-> "pkgDetailHeaderTmpl",    id |-> "pkg-detail-header",
                                         requiredTemplates |-> <<"pkg-detail-btns">>],
    [field |-> "pkgConfigInput",         id |-> "pkg-config-input",
                                         requiredTemplates |-> <<"datalist">>],
    [field |-> "pkgUninstallModalTmpl",  id |-> "pkg-uninstall-modal",
                                         requiredTemplates |-> <<>>],
    [field |-> "toastTmpl",              id |-> "toast",
                                         requiredTemplates |-> <<>>],
    [field |-> "datalistTmpl",           id |-> "datalist",
                                         requiredTemplates |-> <<>>],
    [field |-> "pkgDiscussionBadgeTmpl", id |-> "discussion-badge",
                                         requiredTemplates |-> <<>>],
    [field |-> "yamlModalTmpl",          id |-> "yaml-modal",
                                         requiredTemplates |-> <<>>] >>

PageFields == {Pages[i].field : i \in 1..Len(Pages)}

ComponentFields == {Components[i].field : i \in 1..Len(Components)}

\* every *template.Template field of the struct
TemplateFields == {"baseTemplate"} \cup PageFields \cup ComponentFields

\* the assignments of parseTemplates, in program order
Steps ==
    << [op |-> "funcs"], [op |-> "base"] >>
    \o [i \in 1..Len(Pages) |-> [op |-> "page", page |-> Pages[i]]]
    \o [i \in 1..Len(Components) |-> [op |-> "component", comp |-> Components[i]]]

\* a nil *template.Template
NilTemplate == [gen |-> 0, base |-> 0, funcs |-> 0, defs |-> {}]

(***************************************************************************)
(* The filesystem read through webFs                                       *)
(***************************************************************************)
\* the source files a developer edits in a run, one of each watched directory
\* (the component is one that another component requires); every other file
\* stays intact
EditedFiles == { BaseFile,
                 <<"pages", "package.html">>,
                 <<"components", "pkg-detail-btns.html">> }

FileStatus == {"ok", "malformed", "missing"}

\* the operations fsnotify reports
Ops == {"create", "write", "remove", "rename"}

Status(f) == IF f \in DOMAIN fs THEN fs[f] ELSE "ok"

ComponentFile(id) ==
    CASE id = "pkg-detail-header"   -> <<"components", "pkg-detail-header.html">>
      [] id = "pkg-detail-btns"     -> <<"components", "pkg-detail-btns.html">>
      [] id = "pkg-config-input"    -> <<"components", "pkg-config-input.html">>
      [] id = "pkg-uninstall-modal" -> <<"components", "pkg-uninstall-modal.html">>
      [] id = "toast"               -> <<"components", "toast.html">>
      [] id = "datalist"            -> <<"components", "datalist.html">>
      [] id = "discussion-badge"    -> <<"components", "discussion-badge.html">>
      [] id = "yaml-modal"          -> <<"components", "yaml-modal.html">>

\* every component source file of the repository that a template names
AllComponentFiles ==
    { ComponentFile(Components[i].id) : i \in 1..Len(Components) }
    \cup { <<"components", "pkg-detail-btns.html">> }

\* fs.Glob of one pattern: a path without wildcards matches the file if it exists
Match(f) == IF Status(f) = "missing" THEN {} ELSE {f}

\* fs.Glob of components/*.html: the component files that exist
GlobComponents == { f \in AllComponentFiles : Status(f) # "missing" }

\* ParseFS(webFs, patterns...) succeeds iff every pattern matches a file and every
\* matched file parses; matches is the set of the patterns' match sets
ParseFSOk(matches) ==
    \A m \in matches : m # {} /\ \A f \in m : Status(f) = "ok"

(***************************************************************************)
(* parseTemplates and its helpers                                          *)
(***************************************************************************)
\* template.Must(t, err): returns t iff err == nil, panics otherwise
\* variant: the error is dropped and the template used anyway
MustIgnoringError(ok) == TRUE

Must(ok) == ok

\* template.New("base.html").Funcs(t.templateFuncs).ParseFS(webFs, layout/base.html)
BaseTmplOk == ParseFSOk({Match(BaseFile)})

BaseTmpl ==
    [gen |-> cycle, base |-> cycle, funcs |-> templateFuncs, defs |-> {BaseFile}]

\* pageTmpl(fileName): t.baseTemplate.Clone() then
\* ParseFS(webFs, pages/fileName, components/*.html)
PageTmplOk(page) ==
    ParseFSOk({Match(<<"pages", page.file>>), GlobComponents})

\* variant: the clone is taken from the page's previous template
PageTmplFromOldPage(page) ==
    [gen   |-> cycle,
     base  |-> tmpl[page.field].base,
     funcs |-> tmpl[page.field].funcs,
     defs  |-> tmpl["baseTemplate"].defs \cup {<<"pages", page.file>>}
               \cup GlobComponents]

\* variant: the clone of the base is stored before the page is parsed into it
PageTmplWithoutPage(page) ==
    [gen   |-> cycle,
     base  |-> tmpl["baseTemplate"].gen,
     funcs |-> tmpl["baseTemplate"].funcs,
     defs  |-> tmpl["baseTemplate"].defs]

PageTmpl(page) ==
    [gen   |-> cycle,
     base  |-> tmpl["baseTemplate"].gen,
     funcs |-> tmpl["baseTemplate"].funcs,
     defs  |-> tmpl["baseTemplate"].defs \cup {<<"pages", page.file>>}
               \cup GlobComponents]

\* componentTmpl(id, requiredTemplates...): the required components' files, then
\* the component's own file
ComponentTpls(comp) ==
    { ComponentFile(comp.requiredTemplates[i]) :
          i \in 1..Len(comp.requiredTemplates) }
    \cup { ComponentFile(comp.id) }

ComponentTmplOk(comp) == ParseFSOk({ Match(f) : f \in ComponentTpls(comp) })

ComponentTmpl(comp) ==
    [gen |-> cycle, base |-> 0, funcs |-> templateFuncs, defs |-> ComponentTpls(comp)]

\* a panic nobody recovers ends the process
Panic ==
    /\ crashed' = TRUE
    /\ UNCHANGED <<templateFuncs, tmpl, cycle, completed, compilePc, mainPc>>

\* t.<field> = value; the last assignment is followed by the return of
\* parseTemplates (to the startup task, or to the watcher loop)
Assign(field, value) ==
    /\ tmpl' = [tmpl EXCEPT ![field] = value]
    /\ IF compilePc = Len(Steps)
         THEN /\ compilePc' = 0
              /\ completed' = completed + 1
              /\ mainPc' = IF mainPc = "parse" THEN "watch" ELSE mainPc
         ELSE /\ compilePc' = compilePc + 1
              /\ UNCHANGED <<completed, mainPc>>
    /\ UNCHANGED <<templateFuncs, cycle, crashed>>

Compiling(op) ==
    /\ ~crashed
    /\ compilePc \in 1..Len(Steps)
    /\ Steps[compilePc].op = op

compileRest == <<registered, watchErr, loopStarted, delivered, received, edits,
                 fs, reads>>

\* t.templateFuncs = template.FuncMap{...}
BuildFuncs ==
    /\ Compiling("funcs")
    /\ templateFuncs' = cycle
    /\ compilePc' = compilePc + 1
    /\ UNCHANGED <<tmpl, cycle, completed, mainPc, crashed>>
    /\ UNCHANGED compileRest

\* t.baseTemplate = template.Must(...)
ParseBase ==
    /\ Compiling("base")
    /\ IF Must(BaseTmplOk) THEN Assign("baseTemplate", BaseTmpl) ELSE Panic
    /\ UNCHANGED compileRest

\* t.<page field> = t.pageTmpl(<file>)
ParsePage ==
    /\ Compiling("page")
    /\ LET page == Steps[compilePc].page IN
         IF Must(PageTmplOk(page)) THEN Assign(page.field, PageTmpl(page)) ELSE Panic
    /\ UNCHANGED compileRest

\* t.<component field> = t.componentTmpl(<id>, <required>...)
ParseComponent ==
    /\ Compiling("component")
    /\ LET comp == Steps[compilePc].comp IN
         IF Must(ComponentTmplOk(comp)) THEN Assign(comp.field, ComponentTmpl(comp))
                                        ELSE Panic
    /\ UNCHANGED compileRest

ParseTemplatesStep == BuildFuncs \/ ParseBase \/ ParsePage \/ ParseComponent

(***************************************************************************)
(* watchTemplates and the goroutine it starts                              *)
(***************************************************************************)
watchRest == <<templateFuncs, tmpl, cycle, completed, compilePc, delivered,
               received, edits, fs, crashed, reads>>

\* variant: the loop is started whatever the combined error is
WatchTemplatesAlwaysLooping ==
    /\ ~crashed
    /\ mainPc = "watch"
    /\ \E added \in SUBSET Dirs :
         /\ registered' = added
         /\ watchErr' = Dirs \ added
         /\ loopStarted' = TRUE
    /\ mainPc' = "serve"
    /\ UNCHANGED watchRest

\* watcher.Add succeeds for the directories in `added`; the errors of the others
\* are combined and returned, and the loop is started only if there is none
WatchTemplates ==
    /\ ~crashed
    /\ mainPc = "watch"
    /\ \E added \in SUBSET Dirs :
         /\ registered' = added
         /\ watchErr' = Dirs \ added
         /\ loopStarted' = (Dirs \ added = {})
    /\ mainPc' = "serve"
    /\ UNCHANGED watchRest

receiveRest == <<templateFuncs, tmpl, completed, mainPc, registered, watchErr,
                 loopStarted, delivered, edits, fs, crashed, reads>>

\* variant: the loop drains every waiting event before it recompiles once
WatcherReceiveCoalescing ==
    /\ ~crashed
    /\ loopStarted
    /\ compilePc = 0
    /\ received < delivered
    /\ received' = delivered
    /\ cycle' = cycle + 1
    /\ compilePc' = 1
    /\ UNCHANGED receiveRest

\* for range watcher.Events { t.parseTemplates() }: one event is taken and
\* parseTemplates is entered; the loop is back here only after it returned
WatcherReceive ==
    /\ ~crashed
    /\ loopStarted
    /\ compilePc = 0
    /\ received < delivered
    /\ received' = received + 1
    /\ cycle' = cycle + 1
    /\ compilePc' = 1
    /\ UNCHANGED receiveRest

(***************************************************************************)
(* The environment: edits of the source files, and requests                *)
(***************************************************************************)
\* a developer changes one source file while the process runs; fsnotify puts an
\* event on watcher.Events if the file's directory is watched
FsEvent ==
    /\ ~crashed
    /\ edits < MaxEvents
    /\ \E f \in EditedFiles, op \in Ops, content \in {"ok", "malformed"} :
         /\ (op = "create") = (Status(f) = "missing")
         /\ fs' = [fs EXCEPT ![f] = IF op \in {"create", "write"} THEN content
                                                                  ELSE "missing"]
         /\ delivered' = IF f[1] \in registered THEN delivered + 1 ELSE delivered
    /\ edits' = edits + 1
    /\ UNCHANGED <<templateFuncs, tmpl, cycle, completed, compilePc, mainPc,
                   registered, watchErr, loopStarted, received, crashed, reads>>

\* the fields the modelled request handlers read: a page, which parseTemplates
\* assigns early, and a component, which it assigns late
LookupFields == {"pkgPageTmpl", "toastTmpl"}

\* a request handler reads one more field of the struct, with no lock
Get ==
    /\ ~crashed
    /\ mainPc = "serve"
    /\ Len(reads) < MaxReads
    /\ \E field \in LookupFields :
         /\ \A i \in 1..Len(reads) : reads[i].field # field
         /\ reads' = Append(reads, [field |-> field, cycle |-> cycle,
                                    t |-> tmpl[field]])
    /\ UNCHANGED <<templateFuncs, tmpl, cycle, completed, compilePc, mainPc,
                   registered, watchErr, loopStarted, delivered, received, edits,
                   fs, crashed>>

\* the request is answered
RequestDone ==
    /\ ~crashed
    /\ reads # <<>>
    /\ reads' = <<>>
    /\ UNCHANGED <<templateFuncs, tmpl, cycle, completed, compilePc, mainPc,
                   registered, watchErr, loopStarted, delivered, received, edits,
                   fs, crashed>>

(***************************************************************************)
(* Specification of the registry                                           *)
(***************************************************************************)
\* the startup task has just entered parseTemplates on the zero-valued struct
Init ==
    /\ templateFuncs = 0
    /\ tmpl = [f \in TemplateFields |-> NilTemplate]
    /\ cycle = 1
    /\ completed = 0
    /\ compilePc = 1
    /\ mainPc = "parse"
    /\ registered = {}
    /\ watchErr = {}
    /\ loopStarted = FALSE
    /\ delivered = 0
    /\ received = 0
    /\ edits = 0
    /\ fs = [f \in EditedFiles |-> "ok"]
    /\ crashed = FALSE
    /\ reads = <<>>
    /\ fnIn = [fn |-> "none"]
    /\ fnOut = <<>>

Next ==
    \/ (ParseTemplatesStep /\ UNCHANGED fnVars)
    \/ (WatchTemplates /\ UNCHANGED fnVars)
    \/ (WatcherReceive /\ UNCHANGED fnVars)
    \/ (FsEvent /\ UNCHANGED fnVars)
    \/ (Get /\ UNCHANGED fnVars)
    \/ (RequestDone /\ UNCHANGED fnVars)

Spec == Init /\ [][Next]_vars

\* the registry without request tasks (a request only reads, so it changes
\* nothing the watcher or parseTemplates see)
NextWatcher ==
    \/ (ParseTemplatesStep /\ UNCHANGED fnVars)
    \/ (WatchTemplates /\ UNCHANGED fnVars)
    \/ (WatcherReceive /\ UNCHANGED fnVars)
    \/ (FsEvent /\ UNCHANGED fnVars)

\* the Go scheduler runs the watcher goroutine whenever it can take a step
FairSpec ==
    /\ Init
    /\ [][NextWatcher]_vars
    /\ WF_vars(WatcherReceive /\ UNCHANGED fnVars)
    /\ WF_vars(ParseTemplatesStep /\ UNCHANGED fnVars)

(***************************************************************************)
(* The template functions (templateFuncs)                                  *)
(***************************************************************************)
\* what a call made by the template engine ends in: a value, or a panic (which
\* the engine turns into an error that aborts the execution of the template)
Return(v) == [panic |-> FALSE, val |-> v]

Panics == [panic |-> TRUE, val |-> "panic"]

\* a ctrlpkg.Package value: the nil interface, a typed nil pointer (IsNil() is
\* true), or a package with its spec
NilInterface ==
    [kind |-> "nil", name |-> "", version |-> "", suspend |-> FALSE,
     autoUpdates |-> FALSE]

TypedNil ==
    [kind |-> "empty", name |-> "", version |-> "", suspend |-> FALSE,
     autoUpdates |-> FALSE]

PresentPackages ==
    [kind : {"present"}, name : {"cert-manager", "argo-cd"},
     version : {"v1.14.2+1"}, suspend : BOOLEAN, autoUpdates : BOOLEAN]

PackageHandles == {NilInterface, TypedNil} \cup PresentPackages

\* pkg.IsNil(), for a non-nil interface value
IsNil(pkg) == pkg.kind = "empty"

\* the two outcomes of GetPackageManifestURL(name, version)
ManifestLookups ==
    { [err |-> FALSE, url |-> "https://packages.dl.glasskube.dev/package.yaml"],
      [err |-> TRUE,  url |-> ""] }

\* "PackageManifestUrl": pkg.IsNil() is called first, whatever pkg is; a method
\* call on the nil interface panics
PackageManifestUrl(pkg, lookup) ==
    IF pkg.kind = "nil" THEN Panics
    ELSE IF ~IsNil(pkg)
      THEN IF ~lookup.err THEN Return(lookup.url) ELSE Return("")
      ELSE Return("")

\* "AutoUpdateEnabled"
AutoUpdateEnabled(pkg) ==
    IF pkg.kind # "nil" /\ ~IsNil(pkg) THEN Return(pkg.autoUpdates)
                                       ELSE Return(FALSE)

\* variant: IsNil() is called without the `pkg != nil` test
IsSuspendedWithoutNilCheck(pkg) ==
    IF pkg.kind = "nil" THEN Panics
    ELSE IF ~IsNil(pkg) THEN Return(pkg.suspend) ELSE Return(FALSE)

\* "IsSuspended"
IsSuspended(pkg) ==
    IF pkg.kind # "nil" /\ ~IsNil(pkg) THEN Return(pkg.suspend)
                                       ELSE Return(FALSE)

\* values handed to "Reversed": kind is the reflect.Kind of the value, "invalid"
\* for the untyped nil (reflect.TypeOf(nil) is the nil Type)
Elems == {"a", "b"}

SeqsUpTo(n) == UNION { [1..k -> Elems] : k \in 0..n }

ReversedInputs ==
    [kind : {"slice", "array"}, elems : SeqsUpTo(MaxLen), scalar : {""}]
    \cup [kind : {"string", "int", "map", "ptr"}, elems : {<<>>}, scalar : {"x", "y"}]
    \cup [kind : {"invalid"}, elems : {<<>>}, scalar : {""}]

\* for i := 0; i < ln; i++ { newVal[ln-i-1] = val.Index(i).Interface() }
RECURSIVE ReverseLoop(_, _, _)
ReverseLoop(val, i, newVal) ==
    IF i < Len(val)
      THEN ReverseLoop(val, i + 1, [newVal EXCEPT ![Len(val) - i - 1 + 1] = val[i + 1]])
      ELSE newVal

\* "Reversed": reflect.TypeOf(param).Kind() is a method call on the nil Type
\* when param is the untyped nil
Reversed(param) ==
    IF param.kind = "invalid" THEN Panics
    ELSE IF param.kind \in {"slice", "array"}
      THEN Return([kind   |-> "slice",
                   elems  |-> ReverseLoop(param.elems, 0,
                                          [j \in 1..Len(param.elems) |-> "nil"]),
                   scalar |-> ""])
      ELSE Return(param)

(***************************************************************************)
(* The markdown converter's ASTTransformer                                 *)
(***************************************************************************)
\* node kinds of the parsed document; with extension.Linkify a bare URL in the
\* text becomes an AutoLink node, an inline [text](url) link a Link node
NodeKinds == {"Document", "Blockquote", "Paragraph", "Text", "Link", "AutoLink"}

\* which kinds the parser nests in which
ValidChild(parentKind, kind) ==
    CASE parentKind \in {"Document", "Blockquote"} -> kind \in {"Blockquote", "Paragraph"}
      [] parentKind = "Paragraph" -> kind \in {"Text", "Link", "AutoLink"}
      [] parentKind = "Link" -> kind = "Text"
      [] OTHER -> FALSE

\* document trees of n nodes: node 1 is the Document, a node's parent has a
\* smaller number, and the children of a node are in increasing order
RECURSIVE DocsOfSize(_)
DocsOfSize(n) ==
    IF n = 1 THEN { [kind |-> <<"Document">>, parent |-> <<0>>] }
    ELSE UNION { { [kind |-> Append(d.kind, k), parent |-> Append(d.parent, p)] :
                     k \in { x \in NodeKinds : ValidChild(d.kind[p], x) } } :
                 d \in DocsOfSize(n - 1), p \in 1..(n - 1) }

Docs == UNION { DocsOfSize(n) : n \in 1..MaxNodes }

RECURSIVE ChildrenFrom(_, _, _)
ChildrenFrom(doc, node, j) ==
    IF j > Len(doc.kind) THEN <<>>
    ELSE IF doc.parent[j] = node THEN <<j>> \o ChildrenFrom(doc, node, j + 1)
    ELSE ChildrenFrom(doc, node, j + 1)

Children(doc, node) == ChildrenFrom(doc, node, node + 1)

\* v.SetAttributeString(name, value)
SetAttributeString(attrs, name, value) ==
    { a \in attrs : a[1] # name } \cup { <<name, value>> }

\* the function Transform hands to ast.Walk
Walker(doc, n, entering, st) ==
    IF ~entering
      THEN [st EXCEPT !.calls[n] = @ + 1]
      ELSE LET v == st.attrs[n]
               w == CASE doc.kind[n] = "Link" ->
                           SetAttributeString(
                               SetAttributeString(v, "target", "_blank"),
                               "rel", "noopener noreferrer")
                      [] doc.kind[n] = "Blockquote" ->
                           SetAttributeString(v, "class",
                               "border-start border-primary border-3 ps-2")
                      [] OTHER -> v
           IN  [st EXCEPT !.calls[n] = @ + 1, !.entered[n] = @ + 1, !.attrs[n] = w]

\* ast.Walk(n, walker): walker(n, true), the children in order, walker(n, false)
RECURSIVE Walk(_, _, _), WalkChildren(_, _, _)
Walk(doc, n, st) ==
    Walker(doc, n, FALSE, WalkChildren(doc, Children(doc, n), Walker(doc, n, TRUE, st)))

WalkChildren(doc, cs, st) ==
    IF cs = <<>> THEN st
    ELSE WalkChildren(doc, Tail(cs), Walk(doc, Head(cs), st))

\* (*ASTTransformer).Transform(node, reader, pc)
Transform(doc) ==
    Walk(doc, 1, [attrs   |-> [i \in 1..Len(doc.kind) |-> {}],
                  entered |-> [i \in 1..Len(doc.kind) |-> 0],
                  calls   |-> [i \in 1..Len(doc.kind) |-> 0]])

(***************************************************************************)
(* Specification of the template functions: one call on a bounded input    *)
(***************************************************************************)
InitFn ==
    /\ templateFuncs = 0
    /\ tmpl = [f \in TemplateFields |-> NilTemplate]
    /\ cycle = 1
    /\ completed = 0
    /\ compilePc = 1
    /\ mainPc = "parse"
    /\ registered = {}
    /\ watchErr = {}
    /\ loopStarted = FALSE
    /\ delivered = 0
    /\ received = 0
    /\ edits = 0
    /\ fs = [f \in EditedFiles |-> "ok"]
    /\ crashed = FALSE
    /\ reads = <<>>
    /\ fnOut = <<>>
    /\ \/ fnIn \in [fn : {"PackageManifestUrl"}, pkg : PackageHandles,
                    lookup : ManifestLookups]
       \/ fnIn \in [fn : {"AutoUpdateEnabled", "IsSuspended"}, pkg : PackageHandles]
       \/ fnIn \in [fn : {"Reversed"}, param : ReversedInputs]
       \/ fnIn \in [fn : {"Transform"}, doc : Docs]

CallPackageManifestUrl ==
    /\ fnIn.fn = "PackageManifestUrl" /\ fnOut = <<>>
    /\ fnOut' = <<PackageManifestUrl(fnIn.pkg, fnIn.lookup)>>
    /\ UNCHANGED fnIn

CallAutoUpdateEnabled ==
    /\ fnIn.fn = "AutoUpdateEnabled" /\ fnOut = <<>>
    /\ fnOut' = <<AutoUpdateEnabled(fnIn.pkg)>>
    /\ UNCHANGED fnIn

CallIsSuspended ==
    /\ fnIn.fn = "IsSuspended" /\ fnOut = <<>>
    /\ fnOut' = <<IsSuspended(fnIn.pkg)>>
    /\ UNCHANGED fnIn

\* {{ Reversed x }}, and Reversed again on what it returned
CallReversed ==
    /\ fnIn.fn = "Reversed" /\ Len(fnOut) < 2
    /\ IF fnOut = <<>>
         THEN fnOut' = <<Reversed(fnIn.param)>>
         ELSE /\ ~fnOut[1].panic
              /\ fnOut' = Append(fnOut, Reversed(fnOut[1].val))
    /\ UNCHANGED fnIn

CallTransform ==
    /\ fnIn.fn = "Transform" /\ fnOut = <<>>
    /\ fnOut' = <<Transform(fnIn.doc)>>
    /\ UNCHANGED fnIn

NextFn ==
    \/ (CallPackageManifestUrl /\ UNCHANGED regVars)
    \/ (CallAutoUpdateEnabled /\ UNCHANGED regVars)
    \/ (CallIsSuspended /\ UNCHANGED regVars)
    \/ (CallReversed /\ UNCHANGED regVars)
    \/ (CallTransform /\ UNCHANGED regVars)

SpecFn == InitFn /\ [][NextFn]_vars

(***************************************************************************)
(* Properties of the template functions                                    *)
(***************************************************************************)
Called(fn) == fnIn.fn = fn /\ fnOut # <<>>

\* C6: PackageManifestUrl returns a string for every handle and lookup outcome,
\* the empty string when the handle is nil or empty or the lookup fails.
C6_ManifestUrlNeverAborts ==
    Called("PackageManifestUrl") =>
        /\ ~fnOut[1].panic
        /\ (fnIn.pkg.kind # "present" \/ fnIn.lookup.err) => fnOut[1].val = ""

\* C7: IsSuspended and AutoUpdateEnabled never fail, give false for a nil or
\* empty handle, and the handle's Suspend flag / AutoUpdatesEnabled() otherwise.
C7_PredicatesSafe ==
    /\ Called("IsSuspended") =>
           /\ ~fnOut[1].panic
           /\ fnOut[1].val = (fnIn.pkg.kind = "present" /\ fnIn.pkg.suspend)
    /\ Called("AutoUpdateEnabled") =>
           /\ ~fnOut[1].panic
           /\ fnOut[1].val = (fnIn.pkg.kind = "present" /\ fnIn.pkg.autoUpdates)

\* IsSuspended was called with the nil interface
C7_Witness ==
    /\ Called("IsSuspended") /\ fnIn.pkg.kind = "nil"
    /\ fnOut[1] = Return(FALSE)

HyperlinkAttrs == { <<"target", "_blank">>, <<"rel", "noopener noreferrer">> }

BlockquoteAttrs == { <<"class", "border-start border-primary border-3 ps-2">> }

\* C8: after the pass every node was processed exactly once, every hyperlink
\* node (Link, and AutoLink for a bare URL) carries target and rel, every
\* blockquote the class, and every other node no attribute.
C8_TransformByKind ==
    Called("Transform") =>
        \A i \in 1..Len(fnIn.doc.kind) :
            /\ fnOut[1].entered[i] = 1
            /\ fnOut[1].attrs[i] =
                 CASE fnIn.doc.kind[i] \in {"Link", "AutoLink"} -> HyperlinkAttrs
                   [] fnIn.doc.kind[i] = "Blockquote" -> BlockquoteAttrs
                   [] OTHER -> {}

\* C9: Reversed never fails; on a slice or array it gives the elements in
\* reverse order and twice gives them in the original order; any other input,
\* the nil value included, comes back unchanged.
C9_ReversedInvolution ==
    Called("Reversed") =>
        LET in == fnIn.param
            n  == Len(in.elems)
        IN  /\ ~fnOut[1].panic
            /\ IF in.kind \in {"slice", "array"}
                 THEN /\ Len(fnOut[1].val.elems) = n
                      /\ \A j \in 1..n : fnOut[1].val.elems[j] = in.elems[n + 1 - j]
                      /\ Len(fnOut) = 2 =>
                             (~fnOut[2].panic /\ fnOut[2].val.elems = in.elems)
                 ELSE fnOut[1].val = in

(***************************************************************************)
(* Properties of the registry                                              *)
(***************************************************************************)
\* the source files whose definitions the template of a field must contain
RequiredDefs(field) ==
    IF field = "baseTemplate" THEN {BaseFile}
    ELSE IF field \in PageFields
      THEN LET page == CHOOSE p \in {Pages[i] : i \in 1..Len(Pages)} :
                           p.field = field
           IN  {BaseFile, <<"pages", page.file>>}
      ELSE LET comp == CHOOSE c \in {Components[i] : i \in 1..Len(Components)} :
                           c.field = field
           IN  ComponentTpls(comp)

\* t is a non-nil template, parsed completely, of compile cycle c or the one before
ServableAt(field, t, c) ==
    /\ t # NilTemplate
    /\ t.gen \in {c - 1, c} /\ t.gen >= 1
    /\ RequiredDefs(field) \subseteq t.defs

Recompiling == cycle >= 2 /\ compilePc \in 1..Len(Steps)

\* C1: a request that reads several templates during one compile cycle gets all
\* of them from the same cycle (all previous or all new), never a mixed set.
C1_NoMixedSet ==
    \A i, j \in 1..Len(reads) :
        reads[i].cycle = reads[j].cycle => reads[i].t.gen = reads[j].t.gen

\* C2: once the first parseTemplates has returned, every field of the struct, and
\* so every single lookup, including one made while a recompile runs, holds a
\* non-nil, completely parsed template of the previous or of the new cycle.
C2_SingleLookup ==
    completed >= 1 =>
        /\ \A field \in TemplateFields : ServableAt(field, tmpl[field], cycle)
        /\ \A i \in 1..Len(reads) :
               ServableAt(reads[i].field, reads[i].t, reads[i].cycle)

\* a request that, within one recompile, got one template of the new cycle and
\* one of the previous cycle
C2_Witness ==
    /\ Recompiling
    /\ \E i, j \in 1..Len(reads) :
         /\ reads[i].cycle = cycle /\ reads[j].cycle = cycle
         /\ reads[i].t.gen = cycle /\ reads[j].t.gen = cycle - 1

WatcherCanStep ==
    ~crashed /\ loopStarted /\ (compilePc > 0 \/ received < delivered)

RequiredSourceBad(k) ==
    LET step == Steps[k] IN
    CASE step.op = "funcs" -> FALSE
      [] step.op = "base"  -> Status(BaseFile) # "ok"
      [] step.op = "page"  ->
             \/ Status(<<"pages", step.page.file>>) # "ok"
             \/ \E f \in AllComponentFiles : Status(f) = "malformed"
      [] step.op = "component" ->
             \/ Status(ComponentFile(step.comp.id)) # "ok"
             \/ \E i \in 1..Len(step.comp.requiredTemplates) :
                    Status(ComponentFile(step.comp.requiredTemplates[i])) # "ok"

\* C5: a parseTemplates step that finds a required source missing or malformed
\* panics instead of going on (at startup and on a reload alike), and after the
\* panic nothing is compiled, returned or looked up any more.
C5_FatalCompile ==
    /\ [][(compilePc \in 1..Len(Steps) /\ RequiredSourceBad(compilePc)
              /\ (compilePc' # compilePc \/ tmpl' # tmpl \/ crashed'))
            => (crashed' /\ completed' = completed /\ tmpl' = tmpl)]_vars
    /\ [][crashed => (crashed' /\ reads' = reads /\ tmpl' = tmpl
                         /\ completed' = completed /\ compilePc' = compilePc)]_vars

\* a reload panicked after it had replaced part of the set, a request in flight
C5_Witness ==
    /\ crashed /\ cycle >= 2 /\ compilePc > 3 /\ reads # <<>>
    /\ \E f, g \in TemplateFields : tmpl[f].gen # tmpl[g].gen

\* C10: when a (re)compile returns, the function map, the base layout, every
\* page (cloned from the base of that same compile) and every component stem
\* from that one compile.
C10_CompleteSet ==
    (compilePc = 0 /\ completed >= 1) =>
        /\ completed = cycle
        /\ templateFuncs = cycle
        /\ \A field \in TemplateFields :
               /\ tmpl[field].gen = cycle
               /\ tmpl[field].funcs = cycle
               /\ RequiredDefs(field) \subseteq tmpl[field].defs
        /\ \A field \in PageFields \cup {"baseTemplate"} : tmpl[field].base = cycle

\* a recompile has returned while the next event was already waiting
C10_Witness ==
    /\ compilePc = 0 /\ cycle >= 2 /\ completed = cycle /\ ~crashed
    /\ loopStarted /\ delivered > received

====
